---- MODULE Spec2Model ----
(***************************************************************************)
(* The POST /extract-thermal handler of the Mosquito thermal API, in the   *)
(* revisions the repository holds:                                         *)
(*   "part_003"   src/unnamed/part_003:31-233   scale, sentinel filter,    *)
(*                                              plain min/max/mean         *)
(*   "part_000"   src/unnamed/part_000:45-147   scale, binary uint16 dump  *)
(*   "range"      src/server.js:17-158          /10, range-filtered stats  *)
(*   "percentile" src/server.js:326-503         /10, percentile stats      *)
(* JavaScript numbers are IEEE-754 doubles; they are modelled bit-exactly  *)
(* (round to nearest, ties to even) on multi-limb naturals, so that        *)
(* raw * scale, v / 10, running sums and means round as they do in Node.   *)
(***************************************************************************)
EXTENDS Integers, Sequences, FiniteSets, TLC

(***************************************************************************)
(* Bounds of the model.                                                    *)
(***************************************************************************)
MaxLen == 3        \* longest sample sequence the decoder returns
MaxWidth == 3      \* widest decoded matrix
MaxHeight == 2     \* tallest decoded matrix

\* raw samples the decoder returns: both sentinels, and three valid values
\* (at the /10 scale 1000 is 100 degrees, and 2000 is 200 degrees, above the
\* 150-degree range filter)
SampleVals == {0, 1, 1000, 2000, 65535}

Slots == {1, 2}    \* request handlers that may be in flight together

(***************************************************************************)
(* Multi-limb naturals: a sequence of limbs below 2^15, least significant  *)
(* first, without a leading (last) zero limb; <<>> is 0.                   *)
(***************************************************************************)
Base == 2^15

RECURSIVE BigTrim(_)
BigTrim(a) ==
  IF a = <<>> THEN a
  ELSE IF a[Len(a)] = 0 THEN BigTrim(SubSeq(a, 1, Len(a) - 1)) ELSE a

RECURSIVE BigFromNat(_)
BigFromNat(n) == IF n = 0 THEN <<>> ELSE <<n % Base>> \o BigFromNat(n \div Base)

RECURSIVE BigAddC(_, _, _)
BigAddC(a, b, c) ==
  IF a = <<>> /\ b = <<>> THEN (IF c = 0 THEN <<>> ELSE <<c>>)
  ELSE LET s == (IF a = <<>> THEN 0 ELSE Head(a))
                + (IF b = <<>> THEN 0 ELSE Head(b)) + c
       IN  <<s % Base>> \o BigAddC(IF a = <<>> THEN a ELSE Tail(a),
                                   IF b = <<>> THEN b ELSE Tail(b), s \div Base)

BigAdd(a, b) == BigAddC(a, b, 0)

RECURSIVE BigMulSmall(_, _, _)
BigMulSmall(a, s, c) ==
  IF a = <<>> THEN BigFromNat(c)
  ELSE LET p == Head(a) * s + c
       IN  <<p % Base>> \o BigMulSmall(Tail(a), s, p \div Base)

RECURSIVE BigMul(_, _)
BigMul(a, b) ==
  IF b = <<>> \/ a = <<>> THEN <<>>
  ELSE BigTrim(BigAdd(BigMulSmall(a, Head(b), 0), <<0>> \o BigMul(a, Tail(b))))

\* quotient and remainder of a by a small d (0 < d < 2^16)
RECURSIVE BigDivRem(_, _)
DivLimb(hi, limb, d) ==
  [q |-> BigTrim(<<(hi.r * Base + limb) \div d>> \o hi.q),
   r |-> (hi.r * Base + limb) % d]

BigDivRem(a, d) ==
  IF a = <<>> THEN [q |-> <<>>, r |-> 0]
  ELSE DivLimb(BigDivRem(Tail(a), d), Head(a), d)

RECURSIVE BitLenNat(_)
BitLenNat(n) == IF n = 0 THEN 0 ELSE 1 + BitLenNat(n \div 2)

BitLen(a) == IF a = <<>> THEN 0 ELSE (Len(a) - 1) * 15 + BitLenNat(a[Len(a)])

BigShl(a, k) ==
  IF a = <<>> THEN a
  ELSE BigTrim([i \in 1..(k \div 15) |-> 0] \o BigMulSmall(a, 2^(k % 15), 0))

\* a shifted right by k bits; sticky: some bit shifted out was 1
BigShr(a, k) ==
  [q |-> BigDivRem(SubSeq(a, k \div 15 + 1, Len(a)), 2^(k % 15)).q,
   sticky |->
     \/ BigDivRem(SubSeq(a, k \div 15 + 1, Len(a)), 2^(k % 15)).r # 0
     \/ \E i \in 1..Len(a) : i <= k \div 15 /\ a[i] # 0]

RECURSIVE BigCmp(_, _, _)
BigCmp(a, b, i) ==
  IF i = 0 THEN 0
  ELSE IF a[i] < b[i] THEN -1 ELSE IF a[i] > b[i] THEN 1 ELSE BigCmp(a, b, i - 1)

BigLess(a, b) ==
  IF Len(a) # Len(b) THEN Len(a) < Len(b) ELSE BigCmp(a, b, Len(a)) = -1

(***************************************************************************)
(* JavaScript values. A Number is a record [k, neg, m, e]: k = "num" is    *)
(* the finite value (-1)^neg * m * 2^e with m a multi-limb natural of      *)
(* exactly DoublePrec bits (or <<>> for zero); "nan" and "inf" are NaN and *)
(* the infinities; "null" and "undef" are the two non-numbers a response   *)
(* field or an array read can hold.                                        *)
(***************************************************************************)
DoublePrec == 52 + 1

Num(m, e) == [k |-> "num", neg |-> FALSE, m |-> m, e |-> e]
FZero == Num(<<>>, 0)
NaN == [k |-> "nan", neg |-> FALSE, m |-> <<>>, e |-> 0]
Infinity == [k |-> "inf", neg |-> FALSE, m |-> <<>>, e |-> 0]
JNull == [k |-> "null", neg |-> FALSE, m |-> <<>>, e |-> 0]
JUndef == [k |-> "undef", neg |-> FALSE, m |-> <<>>, e |-> 0]
Neg(v) == [v EXCEPT !.neg = ~v.neg]

\* N * 2^e (and a little more when sticky) rounded to prec significant
\* bits, ties to even. N has L bits; sh is N without its low L - prec - 1
\* bits, so its last bit is the rounding bit and kept are the bits above it.
Renormalize(m1, e, prec) ==
  IF BitLen(m1) > prec THEN Num(BigDivRem(m1, 2).q, e + 1) ELSE Num(m1, e)

RoundKept(kept, roundBit, st, e, prec) ==
  Renormalize(IF roundBit = 1 /\ (st \/ Head(kept) % 2 = 1)
                THEN BigAdd(kept, <<1>>) ELSE kept, e, prec)

RoundShifted(sh, sticky, e, prec) ==
  RoundKept(BigDivRem(sh.q, 2).q, Head(sh.q) % 2, sh.sticky \/ sticky, e, prec)

Round(N, e, sticky, prec) ==
  IF N = <<>> THEN FZero
  ELSE IF BitLen(N) <= prec
    THEN Num(BigShl(N, prec - BitLen(N)), e - (prec - BitLen(N)))
  ELSE RoundShifted(BigShr(N, BitLen(N) - prec - 1), sticky,
                    e + (BitLen(N) - prec), prec)

\* the double of a natural n
FromInt(n) == Round(BigFromNat(n), 0, FALSE, DoublePrec)

\* a * b, a + b on finite non-negative doubles
FMul(a, b) == Round(BigMul(a.m, b.m), a.e + b.e, FALSE, DoublePrec)

FAdd(a, b) ==
  IF a.m = <<>> THEN b ELSE IF b.m = <<>> THEN a
  ELSE IF a.e < b.e
    THEN Round(BigAdd(a.m, BigShl(b.m, b.e - a.e)), a.e, FALSE, DoublePrec)
  ELSE Round(BigAdd(BigShl(a.m, a.e - b.e), b.m), b.e, FALSE, DoublePrec)

\* a / d for a finite non-negative double a and an integer 0 < d < 2^15
FDivInt(a, d) ==
  Round(BigDivRem(BigShl(a.m, 30), d).q, a.e - 30,
        BigDivRem(BigShl(a.m, 30), d).r # 0, DoublePrec)

\* a < b on finite non-negative doubles
FLess(a, b) ==
  IF a.m = <<>> THEN b.m # <<>>
  ELSE IF b.m = <<>> THEN FALSE
  ELSE IF a.e # b.e THEN a.e < b.e ELSE BigLess(a.m, b.m)

(***************************************************************************)
(* Request fields. multer and the query parser deliver every field as a    *)
(* string, or not at all: a field is [defined, chars], chars a sequence of *)
(* one-character strings.                                                  *)
(***************************************************************************)
Undefined == [defined |-> FALSE, chars |-> <<>>]
Str(cs) == [defined |-> TRUE, chars |-> cs]

DigitChars == <<"0", "1", "2", "3", "4", "5", "6", "7", "8", "9">>
IsDigit(c) == \E i \in 1..Len(DigitChars) : DigitChars[i] = c
DigitVal(c) == (CHOOSE i \in 1..Len(DigitChars) : DigitChars[i] = c) - 1
IsSpace(c) == c \in {" ", "\t", "\n"}

RECURSIVE TrimStart(_)
TrimStart(cs) ==
  IF cs # <<>> /\ IsSpace(Head(cs)) THEN TrimStart(Tail(cs)) ELSE cs

RECURSIVE TrimEnd(_)
TrimEnd(cs) ==
  IF cs # <<>> /\ IsSpace(cs[Len(cs)])
    THEN TrimEnd(SubSeq(cs, 1, Len(cs) - 1)) ELSE cs

\* String.prototype.trim
Trim(cs) == TrimEnd(TrimStart(cs))

RECURSIVE DigitPrefix(_)
DigitPrefix(cs) ==
  IF cs # <<>> /\ IsDigit(Head(cs)) THEN <<Head(cs)>> \o DigitPrefix(Tail(cs))
  ELSE <<>>

RECURSIVE DecValue(_)
DecValue(ds) ==
  IF ds = <<>> THEN 0
  ELSE DecValue(SubSeq(ds, 1, Len(ds) - 1)) * 10 + DigitVal(ds[Len(ds)])

(***************************************************************************)
(* Integers as parseInt and parseIntOrNull return them: an integer, NaN or *)
(* null.                                                                   *)
(***************************************************************************)
IntVal(n) == [k |-> "int", n |-> n]
IntNaN == [k |-> "nan", n |-> 0]
IntNull == [k |-> "null", n |-> 0]

\* parseInt(v, 10): leading white space, a sign, the longest digit prefix
HasSign(t) == t # <<>> /\ Head(t) \in {"-", "+"}
IsNegative(t) == HasSign(t) /\ Head(t) = "-"
Unsigned(t) == IF HasSign(t) THEN Tail(t) ELSE t

ParseDigits(neg, ds) ==
  IF ds = <<>> THEN IntNaN
  ELSE IF neg THEN IntVal(0 - DecValue(ds))
  ELSE IntVal(DecValue(ds))

ParseInt(cs) ==
  ParseDigits(IsNegative(TrimStart(cs)), DigitPrefix(Unsigned(TrimStart(cs))))

NumberIsInteger(v) == v.k = "int"

parseIntOrNull(v) ==
  IF ~v.defined \/ v.chars = <<>> THEN IntNull
  ELSE IF NumberIsInteger(ParseInt(v.chars)) THEN ParseInt(v.chars)
  ELSE IntNull

\* Number(string): trimmed; empty is 0; [+-]Infinity; [+-]digits[.digits]
\* or [+-].digits; anything else is NaN. (Exponent and radix-prefixed forms
\* are not among the strings the model sends.)
\* the digits after a decimal point at the head of rest
FractionOf(rest) ==
  IF rest # <<>> /\ Head(rest) = "." THEN DigitPrefix(Tail(rest)) ELSE <<>>

\* ip, then rest = "." fp or nothing: the decimal's value, NaN for any
\* other shape
DecimalValue(neg, ip, rest, fp) ==
  IF /\ Len(ip) + Len(fp) > 0
     /\ \/ rest = <<>>
        \/ Head(rest) = "." /\ Len(rest) = 1 + Len(fp)
    THEN [FDivInt(FromInt(DecValue(ip \o fp)), 10 ^ Len(fp))
            EXCEPT !.neg = neg]
    ELSE NaN

DecimalBody(neg, body, ip) ==
  DecimalValue(neg, ip, SubSeq(body, Len(ip) + 1, Len(body)),
               FractionOf(SubSeq(body, Len(ip) + 1, Len(body))))

Magnitude(neg, body) ==
  IF body = <<"I", "n", "f", "i", "n", "i", "t", "y">>
    THEN [Infinity EXCEPT !.neg = neg]
    ELSE DecimalBody(neg, body, DigitPrefix(body))

StringToNumber(cs) ==
  IF Trim(cs) = <<>> THEN FZero
  ELSE Magnitude(IsNegative(Trim(cs)), Unsigned(Trim(cs)))

NumberIsFinite(v) == v.k = "num"

\* (v < 0: a test that lets zero through)
LessZero(v) ==
  \/ v.k = "num" /\ v.neg /\ v.m # <<>>
  \/ v.k = "inf" /\ v.neg

\* v <= 0 for a Number (false for NaN)
LeqZero(v) ==
  \/ v.k = "num" /\ (v.neg \/ v.m = <<>>)
  \/ v.k = "inf" /\ v.neg

\* const DEFAULT_SCALE = 0.1
DEFAULT_SCALE == StringToNumber(<<"0", ".", "1">>)

\* String.prototype.toLowerCase, on the letters of the Latin alphabet
ToLowerCase(cs) ==
  [i \in 1..Len(cs) |->
     IF \E j \in 1..26 : cs[i] = SubSeq("ABCDEFGHIJKLMNOPQRSTUVWXYZ", j, j)
       THEN LET j == CHOOSE j \in 1..26 :
                       cs[i] = SubSeq("ABCDEFGHIJKLMNOPQRSTUVWXYZ", j, j)
            IN  SubSeq("abcdefghijklmnopqrstuvwxyz", j, j)
       ELSE cs[i]]

\* parseBool(v): typeof v === "string" && v.toLowerCase() === "true"
parseBool(v) == v.defined /\ ToLowerCase(v.chars) = <<"t", "r", "u", "e">>

\* parseFloat(string): leading white space, a sign, then Infinity or the
\* longest prefix digits[.digits] or .digits; NaN when there is none.
\* (Exponents are not among the strings the model sends.)
ParseFloat(cs) ==
  IF /\ Len(Unsigned(TrimStart(cs))) >= 8
     /\ SubSeq(Unsigned(TrimStart(cs)), 1, 8)
          = <<"I", "n", "f", "i", "n", "i", "t", "y">>
    THEN [Infinity EXCEPT !.neg = IsNegative(TrimStart(cs))]
    ELSE DecimalValue(IsNegative(TrimStart(cs)),
           DigitPrefix(Unsigned(TrimStart(cs))), <<>>,
           FractionOf(SubSeq(Unsigned(TrimStart(cs)),
                        Len(DigitPrefix(Unsigned(TrimStart(cs)))) + 1,
                        Len(Unsigned(TrimStart(cs))))))

(***************************************************************************)
(* The inputs the model sends.                                             *)
(***************************************************************************)
\* the fields x and y of a request: none, one of the two, an empty one,
\* integers inside and outside a matrix, and one that is no integer
CoordPairs ==
  {<<Undefined, Undefined>>, <<Str(<<"0">>), Undefined>>,
   <<Undefined, Str(<<"1">>)>>, <<Str(<<>>), Str(<<"0">>)>>,
   <<Str(<<"0">>), Str(<<"0">>)>>, <<Str(<<"1">>), Str(<<"0">>)>>,
   <<Str(<<"2">>), Str(<<"0">>)>>, <<Str(<<"0">>), Str(<<"1">>)>>,
   <<Str(<<"1">>), Str(<<"1">>)>>, <<Str(<<"-", "1">>), Str(<<"0">>)>>,
   <<Str(<<"0">>), Str(<<"-", "1">>)>>, <<Str(<<"a">>), Str(<<"1">>)>>,
   <<Str(<<"0">>), Str(<<"a">>)>>}

ScaleVals ==
  {Undefined, Str(<<>>), Str(<<"0", ".", "5">>), Str(<<"0">>),
   Str(<<"-", "1">>), Str(<<"a", "b", "c">>),
   Str(<<"I", "n", "f", "i", "n", "i", "t", "y">>)}

\* part_003: typeof scaleRaw === "string" && scaleRaw.trim() !== ""
\*             ? Number(scaleRaw) : DEFAULT_SCALE
ScaleOf003(scaleRaw) ==
  IF scaleRaw.defined /\ Trim(scaleRaw.chars) # <<>>
    THEN StringToNumber(scaleRaw.chars) ELSE DEFAULT_SCALE

\* part_000: parseScale(typeof scaleRaw === "string" ? scaleRaw : ""),
\* null (here NaN's place is taken by JNull) for an invalid scale
parseScale(v) ==
  IF Trim(v) = <<>> THEN DEFAULT_SCALE
  ELSE IF ~NumberIsFinite(StringToNumber(v)) \/ LeqZero(StringToNumber(v))
    THEN JNull
  ELSE StringToNumber(v)

\* the scales a request of the model can carry past the check
ValidScales ==
  {v \in {ScaleOf003(sc) : sc \in ScaleVals} : NumberIsFinite(v) /\ ~LeqZero(v)}

DataSeqs == UNION {[1..n -> SampleVals] : n \in 0..MaxLen}

\* The decoder is external (dji-thermal-sdk): what it returns is the
\* environment's choice. One outcome of const { width, height, parameters, data } =
\* getTemperatureData(buffer): a matrix, a result without data, or a throw
\* parameters as the decoder reports them: a mapping with its emissivity
\* (undefined when the mapping has none), or no mapping at all
Parameters(emissivity) == [k |-> "params", emissivity |-> emissivity]
NoParameters == [k |-> "undef", emissivity |-> JUndef]

DecodeOutcomes ==
  {[k |-> "data", width |-> w, height |-> h, data |-> d,
    parameters |-> Parameters(FromInt(1))] :
     w \in 1..MaxWidth, h \in 1..MaxHeight, d \in DataSeqs}
  \cup {[k |-> kk, width |-> 1, height |-> 1, data |-> <<>>,
          parameters |-> NoParameters] :
          kk \in {"nodata", "throw"}}

(***************************************************************************)
(* Responses: res.status(..).json(..). JSON.stringify writes NaN and the   *)
(* infinities as null and leaves out a field whose value is undefined.     *)
(***************************************************************************)
Resp(status, kind, body) == [status |-> status, kind |-> kind, body |-> body]
NoResponse == Resp(0, "none", [error |-> ""])
ErrorResp(status, msg) == Resp(status, "error", [error |-> msg])

JsonNumber(v) == IF v.k = "num" THEN v ELSE JNull


Saturated == 65535

\* data[idx]: an element, or undefined outside the array
IntUndef == [k |-> "undef", n |-> 0]
ArrayGet(data, idx) ==
  IF 0 <= idx /\ idx < Len(data) THEN IntVal(data[idx + 1]) ELSE IntUndef

\* (a test that forgets the saturated value)
IsZero(raw) == raw.k = "int" /\ raw.n = 0

\* raw === 0 || raw === 65535
IsSentinel(raw) == raw.k = "int" /\ (raw.n = 0 \/ raw.n = Saturated)

\* raw * scale and v / 10 for a sample. (The tables hold each product and
\* quotient once, so that a step of the model does not redo the arithmetic.)
Scaled(v, scale) == FMul(FromInt(v), scale)
Tenth(v) == FDivInt(FromInt(v), 10)
ScaledMemo == [v \in SampleVals, sc \in ValidScales |-> Scaled(v, sc)] @@ <<>>
TenthMemo == [v \in SampleVals |-> Tenth(v)] @@ <<>>

\* (a product that ignores the request's scale)
TimesDefaultScale(raw, scale) ==
  IF raw.k = "int" THEN ScaledMemo[raw.n, DEFAULT_SCALE] ELSE NaN

\* raw * scale, raw / 10 for what an array read returned (undefined gives NaN)
TimesScale(raw, scale) ==
  IF raw.k = "int" THEN ScaledMemo[raw.n, scale] ELSE NaN
Div10(raw) ==
  IF raw.k = "int" THEN TenthMemo[raw.n] ELSE NaN

\* const idx = y * width + x
PixelIndex(x, y, width) == y * width + x

\* (a bounds test that lets x = width and y = height through)
OutsideMatrixLoose(x, y, width, height) ==
  x < 0 \/ x > width \/ y < 0 \/ y > height

\* x < 0 || x >= width || y < 0 || y >= height
OutsideMatrix(x, y, width, height) ==
  x < 0 \/ x >= width \/ y < 0 \/ y >= height

(***************************************************************************)
(* What the handler does up to the await of the dynamic import: either it  *)
(* has answered (done), or it holds its locals and waits.                  *)
(***************************************************************************)
Answered(r) == [done |-> TRUE, res |-> r, loc |-> 0]
Waiting(l) == [done |-> FALSE, res |-> NoResponse, loc |-> l]
\* (includeRawData, format and emissivityOverride as they are where no
\* field asks for them; a revision without one of them never reads it)
Locals(x, y, hasCoords, scale) ==
  [x |-> x, y |-> y, hasCoords |-> hasCoords, scale |-> scale,
   includeRawData |-> FALSE, format |-> <<"i", "n", "t", "1", "6">>,
   emissivityOverride |-> JNull]

\* part_003:45-55: includeRawData and format
Options003(r, l) ==
  [l EXCEPT !.includeRawData = parseBool(r.include_raw_data),
            !.format = IF r.format.defined THEN ToLowerCase(r.format.chars)
                       ELSE @]

\* server.js:48-51 and 362-365: emissivityOverride; server.js:345-347:
\* includeRawData, which only the percentile revision has
OptionsServer(rv, r, l) ==
  [l EXCEPT !.emissivityOverride =
              IF r.emissivity.defined /\ r.emissivity.chars # <<>>
                THEN ParseFloat(r.emissivity.chars) ELSE JNull,
            !.includeRawData =
              rv = "percentile" /\ parseBool(r.include_raw_data)]

\* const hasCoords = x !== null && y !== null
HasCoordsParsed(x, y) == x.k # "null" /\ y.k # "null"

\* server.js: hasCoords = typeof xRaw !== "undefined" && xRaw !== "" && ...
HasCoordsRaw(xRaw, yRaw) ==
  xRaw.defined /\ xRaw.chars # <<>> /\ yRaw.defined /\ yRaw.chars # <<>>

\* part_003:51-62, with x, y and scale as parsed
Checked003(r, x, y, scale) ==
  IF ~NumberIsFinite(scale) \/ LeqZero(scale)
    THEN Answered(ErrorResp(400, "Invalid 'scale'. Must be a positive number (e.g. 0.1)."))
    ELSE Waiting(Options003(r, Locals(x, y, HasCoordsParsed(x, y), scale)))

\* part_003:33-62
Sync003(r) ==
  IF ~r.file THEN Answered(ErrorResp(400, "Missing file 'image'."))
  ELSE Checked003(r, parseIntOrNull(r.x), parseIntOrNull(r.y),
                  ScaleOf003(r.scale))

\* part_000:52-64, with x, y and scale as parsed
Checked000(x, y, scale) ==
  IF scale = JNull
    THEN Answered(ErrorResp(400, "Invalid 'scale'. Must be a positive number (e.g. 0.1)."))
    ELSE Waiting(Locals(x, y, HasCoordsParsed(x, y), scale))

\* part_000:47-64
Sync000(r) ==
  IF ~r.file THEN Answered(ErrorResp(400, "Missing file 'image'."))
  ELSE Checked000(parseIntOrNull(r.x), parseIntOrNull(r.y),
                  parseScale(IF r.scale.defined THEN r.scale.chars ELSE <<>>))

\* server.js:17-52 and 326-366: x and y are parsed only when both are
\* supplied, and a pair that does not parse is refused
SyncServer(rv, r) ==
  IF ~r.file THEN Answered(ErrorResp(400, "Missing file 'image'."))
  ELSE IF ~HasCoordsRaw(r.x, r.y)
    THEN Waiting(OptionsServer(rv, r, Locals(IntNull, IntNull, FALSE, JUndef)))
  ELSE IF ~NumberIsInteger(ParseInt(r.x.chars))
            \/ ~NumberIsInteger(ParseInt(r.y.chars))
    THEN Answered(ErrorResp(400, "Invalid coordinates; x and y must be integers."))
  ELSE Waiting(OptionsServer(rv, r,
         Locals(ParseInt(r.x.chars), ParseInt(r.y.chars), TRUE, JUndef)))

(***************************************************************************)
(* Comparison of Numbers as JavaScript's < does it (false with a NaN).     *)
(***************************************************************************)
NumLess(a, b) ==
  IF a.k # "num" \/ b.k # "num"
    THEN /\ a.k \in {"num", "inf"} /\ b.k \in {"num", "inf"}
         /\ IF a.k = "inf" THEN a.neg /\ ~(b.k = "inf" /\ b.neg)
            ELSE ~b.neg
  ELSE IF a.neg # b.neg THEN a.neg /\ (a.m # <<>> \/ b.m # <<>>)
  ELSE IF a.neg THEN FLess(b, a) ELSE FLess(a, b)

RECURSIVE BigToNat(_)
BigToNat(a) == IF a = <<>> THEN 0 ELSE Head(a) + Base * BigToNat(Tail(a))

\* Math.floor of a finite non-negative double (below 2^30)
Floor(v) ==
  IF v.m = <<>> THEN 0
  ELSE IF v.e >= 0 THEN BigToNat(BigShl(v.m, v.e))
  ELSE BigToNat(BigShr(v.m, 0 - v.e).q)

(***************************************************************************)
(* Single-pixel mode.                                                      *)
(***************************************************************************)
\* what the rest of the handler did: its response, and the indices of data
\* it read in pixel mode
Outcome(r, read) == [res |-> r, read |-> read]

OutOfBoundsResp(d) ==
  Resp(400, "error",
       [error |-> "Coordinates out of bounds.", width |-> d.width, height |-> d.height])

\* part_003:104-127 and part_000:101-122: the answer for a pixel not a
\* sentinel
PixelValue(l, d, raw, tempC) ==
  Resp(200, "pixel",
       [temperature |-> JsonNumber(tempC), raw |-> raw, scale |-> l.scale,
        x |-> l.x.n, y |-> l.y.n, width |-> d.width, height |-> d.height])

\* part_003:104-127
PixelRead003(l, d, raw) ==
  IF IsSentinel(raw)
    THEN Resp(200, "pixel",
           [temperature |-> JNull, reason |-> "no-data-or-saturated",
            x |-> l.x.n, y |-> l.y.n,
            width |-> d.width, height |-> d.height])
    ELSE PixelValue(l, d, raw, TimesScale(raw, l.scale))

\* part_003:92-128
Pixel003(l, d) ==
  IF OutsideMatrix(l.x.n, l.y.n, d.width, d.height)
    THEN Outcome(OutOfBoundsResp(d), <<>>)
    ELSE Outcome(PixelRead003(l, d,
                   ArrayGet(d.data, PixelIndex(l.x.n, l.y.n, d.width))),
                 <<PixelIndex(l.x.n, l.y.n, d.width)>>)

\* part_000:98-122: as part_003, with scale in the sentinel answer too
PixelRead000(l, d, raw) ==
  IF IsSentinel(raw)
    THEN Resp(200, "pixel",
           [temperature |-> JNull, reason |-> "no-data-or-saturated",
            x |-> l.x.n, y |-> l.y.n,
            width |-> d.width, height |-> d.height, scale |-> l.scale])
    ELSE [PixelValue(l, d, raw, TimesScale(raw, l.scale))
            EXCEPT !.body = @ @@ [parameters |-> d.parameters]]

\* part_000:89-123
Pixel000(l, d) ==
  IF OutsideMatrix(l.x.n, l.y.n, d.width, d.height)
    THEN Outcome(OutOfBoundsResp(d), <<>>)
    ELSE Outcome(PixelRead000(l, d,
                   ArrayGet(d.data, PixelIndex(l.x.n, l.y.n, d.width))),
                 <<PixelIndex(l.x.n, l.y.n, d.width)>>)

\* server.js:76-103 and 391-418: tempRaw / 10, no sentinel test
PixelServer(l, d) ==
  IF OutsideMatrix(l.x.n, l.y.n, d.width, d.height)
    THEN Outcome(OutOfBoundsResp(d), <<>>)
    ELSE Outcome(
           Resp(200, "pixel",
                [temperature |->
                   JsonNumber(Div10(ArrayGet(d.data,
                                PixelIndex(l.x.n, l.y.n, d.width)))),
                 x |-> l.x.n, y |-> l.y.n]),
           <<PixelIndex(l.x.n, l.y.n, d.width)>>)

(***************************************************************************)
(* Statistics mode.                                                        *)
(***************************************************************************)
\* an integer, or the +-Infinity a running minimum or maximum starts from
ExtInt(n) == [inf |-> 0, n |-> n]
PlusInf == [inf |-> 1, n |-> 0]
MinusInf == [inf |-> -1, n |-> 0]
ExtLess(a, b) == IF a.inf # b.inf THEN a.inf < b.inf ELSE a.inf = 0 /\ a.n < b.n
\* the extremum as a Number
ExtNum(a) ==
  IF a.inf = 0 THEN FromInt(a.n) ELSE IF a.inf = 1 THEN Infinity ELSE Neg(Infinity)

PreviewLimit == 50

\* (a loop that skips 0 and not 65535)
RECURSIVE RawLoopZeroOnly(_, _, _)
RawLoopZeroOnly(data, i, acc) ==
  IF i > Len(data) THEN acc
  ELSE IF data[i] = 0 THEN RawLoopZeroOnly(data, i + 1, acc)
  ELSE RawLoopZeroOnly(data, i + 1,
         [minRaw |-> IF ExtLess(ExtInt(data[i]), acc.minRaw)
                       THEN ExtInt(data[i]) ELSE acc.minRaw,
          maxRaw |-> IF ExtLess(acc.maxRaw, ExtInt(data[i]))
                       THEN ExtInt(data[i]) ELSE acc.maxRaw,
          sumRaw |-> acc.sumRaw + data[i],
          count  |-> acc.count + 1])

\* part_003:131-143: min, max, sum and count of the non-sentinel samples
RECURSIVE RawLoop003(_, _, _)
RawLoop003(data, i, acc) ==
  IF i > Len(data) THEN acc
  ELSE LET raw == data[i] IN
       IF raw = 0 \/ raw = Saturated THEN RawLoop003(data, i + 1, acc)
       ELSE RawLoop003(data, i + 1,
              [minRaw |-> IF ExtLess(ExtInt(raw), acc.minRaw)
                            THEN ExtInt(raw) ELSE acc.minRaw,
               maxRaw |-> IF ExtLess(acc.maxRaw, ExtInt(raw))
                            THEN ExtInt(raw) ELSE acc.maxRaw,
               sumRaw |-> acc.sumRaw + raw,
               count  |-> acc.count + 1])

\* (a scan that keeps the last index of each extremum instead of the first)
RECURSIVE IndexLoop003Last(_, _, _, _)
IndexLoop003Last(data, i, st, found) ==
  IF i > Len(data) THEN found
  ELSE IF data[i] = 0 \/ data[i] = Saturated
    THEN IndexLoop003Last(data, i + 1, st, found)
  ELSE IndexLoop003Last(data, i + 1, st,
         [minIndex |-> IF ExtInt(data[i]) = st.minRaw
                         THEN i - 1 ELSE found.minIndex,
          maxIndex |-> IF ExtInt(data[i]) = st.maxRaw
                         THEN i - 1 ELSE found.maxIndex])

\* part_003:158-166: the first index holding minRaw, and the first holding
\* maxRaw, among the non-sentinel samples; -1 when there is none
RECURSIVE IndexLoop003(_, _, _, _)
IndexLoop003(data, i, st, found) ==
  IF i > Len(data) \/ (found.minIndex # -1 /\ found.maxIndex # -1) THEN found
  ELSE LET raw == data[i] IN
       IF raw = 0 \/ raw = Saturated THEN IndexLoop003(data, i + 1, st, found)
       ELSE IndexLoop003(data, i + 1, st,
              [minIndex |-> IF ExtInt(raw) = st.minRaw /\ found.minIndex = -1
                              THEN i - 1 ELSE found.minIndex,
               maxIndex |-> IF ExtInt(raw) = st.maxRaw /\ found.maxIndex = -1
                              THEN i - 1 ELSE found.maxIndex])

\* index >= 0 ? { x: index % width, y: Math.floor(index / width) } : null
PixelOf(index, width) ==
  IF index >= 0 THEN [k |-> "pixel", x |-> index % width, y |-> index \div width]
  ELSE [k |-> "null", x |-> 0, y |-> 0]

\* part_003:185-194: the first PreviewLimit non-sentinel samples, scaled
RECURSIVE Preview003(_, _, _, _)
Preview003(data, i, added, scale) ==
  IF i > Len(data) \/ added >= PreviewLimit THEN <<>>
  ELSE IF data[i] = 0 \/ data[i] = Saturated
    THEN Preview003(data, i + 1, added, scale)
  ELSE <<Scaled(data[i], scale)>>
         \o Preview003(data, i + 1, added + 1, scale)

\* part_003:131-166, 185-194: what the statistics pass computes from data
\* and scale (count = 0: nothing but the count)
Summed003(data, scale, st, ix) ==
  IF st.count = 0
    THEN [count |-> 0, minC |-> NaN, maxC |-> NaN, avgC |-> NaN,
          minIndex |-> -1, maxIndex |-> -1, sampleTempsC |-> <<>>]
    ELSE [count |-> st.count,
          minC |-> FMul(ExtNum(st.minRaw), scale),
          maxC |-> FMul(ExtNum(st.maxRaw), scale),
          avgC |-> FMul(FDivInt(FromInt(st.sumRaw), st.count), scale),
          minIndex |-> ix.minIndex, maxIndex |-> ix.maxIndex,
          sampleTempsC |-> Preview003(data, 1, 0, scale)]

Located003(data, scale, st) ==
  Summed003(data, scale, st,
            IndexLoop003(data, 1, st, [minIndex |-> -1, maxIndex |-> -1]))

Compute003(data, scale) ==
  Located003(data, scale,
    RawLoop003(data, 1,
      [minRaw |-> PlusInf, maxRaw |-> MinusInf, sumRaw |-> 0, count |-> 0]))

Compute003Memo ==
  [data \in DataSeqs, sc \in ValidScales |-> Compute003(data, sc)] @@ <<>>

\* (an answer without the count === 0 test)
Stats003Unguarded(d, c) ==
  Resp(200, "stats",
       [width |-> d.width, height |-> d.height, parameters |-> d.parameters,
        stats |-> [minC |-> JsonNumber(c.minC), maxC |-> JsonNumber(c.maxC),
                   avgC |-> JsonNumber(c.avgC), samples |-> c.count],
        minPixel |-> PixelOf(c.minIndex, d.width),
        maxPixel |-> PixelOf(c.maxIndex, d.width),
        sampleTempsC |-> c.sampleTempsC])

\* part_003:145-195
Stats003Resp(d, c) ==
  IF c.count = 0 THEN ErrorResp(500, "No valid thermal samples for statistics.")
  ELSE Resp(200, "stats",
         [width |-> d.width, height |-> d.height,
          parameters |-> d.parameters,
          stats |-> [minC |-> JsonNumber(c.minC),
                     maxC |-> JsonNumber(c.maxC),
                     avgC |-> JsonNumber(c.avgC),
                     samples |-> c.count],
          minPixel |-> PixelOf(c.minIndex, d.width),
          maxPixel |-> PixelOf(c.maxIndex, d.width),
          sampleTempsC |-> c.sampleTempsC])

\* Math.fround: a double rounded to single precision (values in the
\* range of the normal singles)
Fround(v) ==
  IF v.k # "num" \/ v.m = <<>> THEN v
  ELSE [Round(v.m, v.e, FALSE, 24) EXCEPT !.neg = v.neg]

\* the four bytes of a single in memory, low byte first
Float32Bytes(f) ==
  IF f.k = "nan" THEN <<0, 0, 192, 127>>
  ELSE IF f.k = "inf" THEN <<0, 0, 128, IF f.neg THEN 255 ELSE 127>>
  ELSE IF f.m = <<>> THEN <<0, 0, 0, IF f.neg THEN 128 ELSE 0>>
  ELSE <<(BigToNat(f.m) - 2^23) % 256,
         ((BigToNat(f.m) - 2^23) \div 256) % 256,
         (BigToNat(f.m) - 2^23) \div 65536 + 128 * ((f.e + 150) % 2),
         (f.e + 150) \div 2 + (IF f.neg THEN 128 ELSE 0)>>

\* (a dump that leaves the sentinels out)
RECURSIVE Float32BufferValid(_, _)
Float32BufferValid(data, scale) ==
  IF data = <<>> THEN <<>>
  ELSE IF Head(data) = 0 \/ Head(data) = Saturated
    THEN Float32BufferValid(Tail(data), scale)
  ELSE Float32Bytes(Fround(ScaledMemo[Head(data), scale]))
         \o Float32BufferValid(Tail(data), scale)

\* part_003:201-204: f32[i] = data[i] * scale, and the bytes of f32.buffer
RECURSIVE Float32Buffer(_, _)
Float32Buffer(data, scale) ==
  IF data = <<>> THEN <<>>
  ELSE Float32Bytes(Fround(ScaledMemo[Head(data), scale]))
         \o Float32Buffer(Tail(data), scale)

\* (a dump through an Int16Array read back unsigned: 15 bits of a sample)
RECURSIVE Int16Buffer(_)
Int16Buffer(data) ==
  IF data = <<>> THEN <<>>
  ELSE <<(Head(data) % 32768) % 256, (Head(data) % 32768) \div 256>>
         \o Int16Buffer(Tail(data))

\* part_003:215-218: u16[i] = data[i] (modulo 2^16), and the bytes of
\* u16.buffer
RECURSIVE Uint16Buffer(_)
Uint16Buffer(data) ==
  IF data = <<>> THEN <<>>
  ELSE <<(Head(data) % 65536) % 256, (Head(data) % 65536) \div 256>>
         \o Uint16Buffer(Tail(data))

\* Buffer.prototype.toString("base64")
Sextet(n) ==
  SubSeq("ABCDEFGHIJKLMNOPQRSTUVWXYZabcdefghijklmnopqrstuvwxyz0123456789+/",
         n + 1, n + 1)

RECURSIVE Base64(_)
Base64(b) ==
  IF b = <<>> THEN <<>>
  ELSE IF Len(b) = 1
    THEN <<Sextet(b[1] \div 4), Sextet((b[1] % 4) * 16), "=", "=">>
  ELSE IF Len(b) = 2
    THEN <<Sextet(b[1] \div 4), Sextet((b[1] % 4) * 16 + b[2] \div 16),
           Sextet((b[2] % 16) * 4), "=">>
  ELSE <<Sextet(b[1] \div 4), Sextet((b[1] % 4) * 16 + b[2] \div 16),
         Sextet((b[2] % 16) * 4 + b[3] \div 64), Sextet(b[3] % 64)>>
         \o Base64(SubSeq(b, 4, Len(b)))

\* part_003:198-223: the fields include_raw_data=true adds to the response
Raw003(l, d) ==
  IF l.format = <<"f", "l", "o", "a", "t", "3", "2">>
    THEN [temperatures_base64 |-> Base64(Float32Buffer(d.data, l.scale)),
          temperatures_format |-> "float32",
          temperatures_unit |-> "C"]
    ELSE [temperatures_base64 |-> Base64(Uint16Buffer(d.data)),
          temperatures_format |-> "uint16",
          temperatures_scale |-> l.scale,
          temperatures_unit |-> "C"]

\* part_003:131-225
Stats003(l, d) ==
  IF l.includeRawData /\ Compute003Memo[d.data, l.scale].count # 0
    THEN [Stats003Resp(d, Compute003Memo[d.data, l.scale])
            EXCEPT !.body = @ @@ Raw003(l, d)]
    ELSE Stats003Resp(d, Compute003Memo[d.data, l.scale])

\* server.js:106-118 and 423-435: the non-sentinel samples, over 10, that
\* lie in [lo, hi] degrees
\* v === 0 || v === 65535: skipped; t = v / 10 outside [lo, hi]: skipped
Kept(v, t, lo, hi) ==
  IF v = 0 \/ v = Saturated THEN <<>>
  ELSE IF NumLess(t, lo) \/ NumLess(hi, t) THEN <<>>
  ELSE <<t>>

RECURSIVE TempsInRange(_, _, _, _)
TempsInRange(data, i, lo, hi) ==
  IF i > Len(data) THEN <<>>
  ELSE Kept(data[i], Tenth(data[i]), lo, hi)
         \o TempsInRange(data, i + 1, lo, hi)

\* server.js:126-134: running minimum, maximum and sum of the temperatures
RECURSIVE TempLoop(_, _, _)
TempLoop(temps, i, acc) ==
  IF i > Len(temps) THEN acc
  ELSE LET t == temps[i] IN
       TempLoop(temps, i + 1,
         [minC |-> IF NumLess(t, acc.minC) THEN t ELSE acc.minC,
          maxC |-> IF NumLess(acc.maxC, t) THEN t ELSE acc.maxC,
          sumC |-> FAdd(acc.sumC, t)])

Take(seq, n) == SubSeq(seq, 1, IF Len(seq) < n THEN Len(seq) ELSE n)

RangeLow == Neg(FromInt(50))
RangeHigh == FromInt(150)

\* server.js:106-136: what the statistics pass computes from data
AveragedRange(tempsC, acc) ==
  IF Len(tempsC) = 0
    THEN [count |-> 0, minC |-> NaN, maxC |-> NaN, avgC |-> NaN,
          tempsC |-> <<>>]
    ELSE [count |-> Len(tempsC), minC |-> acc.minC, maxC |-> acc.maxC,
          avgC |-> FDivInt(acc.sumC, Len(tempsC)), tempsC |-> tempsC]

FilteredRange(tempsC) ==
  AveragedRange(tempsC,
    TempLoop(tempsC, 1,
      [minC |-> Infinity, maxC |-> Neg(Infinity), sumC |-> FZero]))

ComputeRange(data) == FilteredRange(TempsInRange(data, 1, RangeLow, RangeHigh))

ComputeRangeMemo == [data \in DataSeqs |-> ComputeRange(data)] @@ <<>>

\* server.js:120-150
StatsRangeResp(d, c) ==
  IF c.count = 0 THEN ErrorResp(500, "No valid thermal samples for statistics.")
  ELSE Resp(200, "stats",
         [width |-> d.width, height |-> d.height,
          parameters |-> d.parameters,
          stats |-> [minC |-> JsonNumber(c.minC),
                     maxC |-> JsonNumber(c.maxC),
                     avgC |-> JsonNumber(c.avgC),
                     samples |-> c.count],
          sampleTempsC |-> Take(c.tempsC, PreviewLimit)])

\* server.js:106-150
StatsRange(l, d) == StatsRangeResp(d, ComputeRangeMemo[d.data])

\* [...tempsCForStats].sort((a, b) => a - b)
RECURSIVE InsertAsc(_, _)
InsertAsc(t, sorted) ==
  IF sorted = <<>> THEN <<t>>
  ELSE IF NumLess(t, Head(sorted)) THEN <<t>> \o sorted
  ELSE <<Head(sorted)>> \o InsertAsc(t, Tail(sorted))

RECURSIVE SortAsc(_)
SortAsc(temps) ==
  IF temps = <<>> THEN <<>>
  ELSE InsertAsc(temps[Len(temps)], SortAsc(SubSeq(temps, 1, Len(temps) - 1)))

\* (an index rounded to the nearest rank instead of floored)
PercentileNearest(sorted, q) ==
  IF Len(sorted) = 1 THEN sorted[1]
  ELSE sorted[Floor(FAdd(FMul(q, FromInt(Len(sorted) - 1)),
                         FDivInt(FromInt(1), 2))) + 1]

\* const p = (q) => n === 1 ? sorted[0] : sorted[Math.floor(q * (n - 1))]
Percentile(sorted, q) ==
  IF Len(sorted) = 1 THEN sorted[1]
  ELSE sorted[Floor(FMul(q, FromInt(Len(sorted) - 1))) + 1]

Q05 == StringToNumber(<<"0", ".", "0", "5">>)
Q99 == StringToNumber(<<"0", ".", "9", "9">>)

\* server.js:460-467: sum and count of the sorted values within [minC, maxC]
RECURSIVE TrimLoop(_, _, _, _, _)
TrimLoop(sorted, i, minC, maxC, acc) ==
  IF i > Len(sorted) THEN acc
  ELSE LET t == sorted[i] IN
       IF NumLess(t, minC) \/ NumLess(maxC, t)
         THEN TrimLoop(sorted, i + 1, minC, maxC, acc)
         ELSE TrimLoop(sorted, i + 1, minC, maxC,
                [sumC |-> FAdd(acc.sumC, t), count |-> acc.count + 1])

PctLow == Neg(FromInt(40))

\* server.js:423-468: what the statistics pass computes from data
AveragedPercentile(sorted, minC, maxC, acc) ==
  [n |-> Len(sorted), minC |-> minC, maxC |-> maxC,
   avgC |-> FDivInt(acc.sumC, acc.count), count |-> acc.count,
   sorted |-> sorted]

TrimmedPercentile(sorted, minC, maxC) ==
  AveragedPercentile(sorted, minC, maxC,
    TrimLoop(sorted, 1, minC, maxC, [sumC |-> FZero, count |-> 0]))

SortedPercentile(sorted) ==
  IF Len(sorted) = 0
    THEN [n |-> 0, minC |-> NaN, maxC |-> NaN, avgC |-> NaN, count |-> 0,
          sorted |-> <<>>]
    ELSE TrimmedPercentile(sorted, Percentile(sorted, Q05),
                           Percentile(sorted, Q99))

ComputePercentile(data) ==
  SortedPercentile(SortAsc(TempsInRange(data, 1, PctLow, RangeHigh)))

ComputePercentileMemo == [data \in DataSeqs |-> ComputePercentile(data)] @@ <<>>

\* server.js:437-483
StatsPercentileResp(d, c) ==
  IF c.n = 0 THEN ErrorResp(500, "No valid thermal samples for statistics.")
  ELSE Resp(200, "stats",
         [width |-> d.width, height |-> d.height,
          parameters |-> d.parameters,
          stats |-> [minC |-> JsonNumber(c.minC),
                     maxC |-> JsonNumber(c.maxC),
                     avgC |-> JsonNumber(c.avgC),
                     samples |-> c.n,
                     usedForAvg |-> c.count],
          sampleTempsC |-> Take(c.sorted, PreviewLimit)])

\* server.js:423-495; 487-493: temperaturesC = Array.from(data, v => v / 10)
StatsPercentile(l, d) ==
  IF l.includeRawData /\ ComputePercentileMemo[d.data].n # 0
    THEN [StatsPercentileResp(d, ComputePercentileMemo[d.data])
            EXCEPT !.body = @ @@ [temperaturesC |->
                                    [i \in 1..Len(d.data) |->
                                       JsonNumber(TenthMemo[d.data[i]])]]]
    ELSE StatsPercentileResp(d, ComputePercentileMemo[d.data])

\* part_000:125-139: the matrix as a Uint16Array, with its headers
Binary000(l, d) ==
  Resp(200, "binary",
       [width |-> d.width, height |-> d.height, scale |-> l.scale,
        format |-> "uint16", unit |-> "C",
        u16 |-> [i \in 1..Len(d.data) |-> d.data[i] % (Saturated + 1)]])

(***************************************************************************)
(* The handler after the import has resolved: decode, then one of the two  *)
(* modes. A throw of the decoder lands in the handler's catch.             *)
(***************************************************************************)
Caught == Outcome(Resp(500, "error",
                       [error |-> "Processing failed", details |-> "decoder threw"]),
                  <<>>)

\* !data || data.length === 0
NoData(d) == d.k = "nodata" \/ Len(d.data) = 0

After003(l, d) ==
  IF d.k = "throw" THEN Caught
  ELSE IF NoData(d) THEN Outcome(ErrorResp(500, "No thermal data returned"), <<>>)
  ELSE IF l.hasCoords THEN Pixel003(l, d)
  ELSE Outcome(Stats003(l, d), <<>>)

After000(l, d) ==
  IF d.k = "throw" THEN Caught
  ELSE IF NoData(d) THEN Outcome(ErrorResp(500, "No thermal data returned"), <<>>)
  ELSE IF l.hasCoords THEN Pixel000(l, d)
  ELSE Outcome(Binary000(l, d), <<>>)

AfterRange(l, d) ==
  IF d.k = "throw" THEN Caught
  ELSE IF NoData(d) THEN Outcome(ErrorResp(500, "No thermal data returned"), <<>>)
  ELSE IF l.hasCoords THEN PixelServer(l, d)
  ELSE Outcome(StatsRange(l, d), <<>>)

AfterPercentile(l, d) ==
  IF d.k = "throw" THEN Caught
  ELSE IF NoData(d) THEN Outcome(ErrorResp(500, "No thermal data returned"), <<>>)
  ELSE IF l.hasCoords THEN PixelServer(l, d)
  ELSE Outcome(StatsPercentile(l, d), <<>>)

Revisions == {"part_003", "part_000", "range", "percentile"}

Sync(rv, r) ==
  IF rv = "part_003" THEN Sync003(r)
  ELSE IF rv = "part_000" THEN Sync000(r)
  ELSE SyncServer(rv, r)

After(rv, l, d) ==
  IF rv = "part_003" THEN After003(l, d)
  ELSE IF rv = "part_000" THEN After000(l, d)
  ELSE IF rv = "range" THEN AfterRange(l, d)
  ELSE AfterPercentile(l, d)

\* the requests the model sends to a revision: the fields that revision reads
Requests(rv) ==
  {[file |-> f, x |-> xy[1], y |-> xy[2], scale |-> sc,
    include_raw_data |-> Undefined, format |-> Undefined,
    emissivity |-> Undefined] :
     f \in BOOLEAN,
     xy \in CoordPairs,
     sc \in IF rv \in {"part_003", "part_000"} THEN ScaleVals ELSE {Undefined}}

\* requests that set the optional fields a revision reads beside x, y and
\* scale: include_raw_data, format, emissivity
OptionRequests(rv) ==
  {[file |-> TRUE, x |-> xy, y |-> xy, scale |-> sc,
    include_raw_data |-> inc, format |-> fmt, emissivity |-> em] :
     xy \in {Undefined, Str(<<"0">>)},
     sc \in IF rv \in {"part_003", "part_000"}
              THEN {Undefined, Str(<<"0", ".", "5">>)} ELSE {Undefined},
     inc \in IF rv \in {"part_003", "percentile"}
               THEN {Undefined, Str(<<"t", "r", "u", "e">>),
                     Str(<<"T", "R", "U", "E">>), Str(<<"1">>)}
               ELSE {Undefined},
     fmt \in IF rv = "part_003"
               THEN {Undefined, Str(<<"f", "l", "o", "a", "t", "3", "2">>),
                     Str(<<"F", "l", "o", "a", "t", "3", "2">>),
                     Str(<<"i", "n", "t", "1", "6">>)}
               ELSE {Undefined},
     em \in IF rv \in {"range", "percentile"}
              THEN {Undefined, Str(<<>>), Str(<<"0", ".", "9", "5">>)}
              ELSE {Undefined}}

\* decoder results for them: matrices of two samples, with and without
\* parameters and an emissivity in them
OptionOutcomes ==
  {[k |-> "data", width |-> w, height |-> h, data |-> d, parameters |-> p] :
     w \in 1..2, h \in 1..2, d \in {q \in DataSeqs : Len(q) = 2},
     p \in {Parameters(FromInt(1)), Parameters(JUndef), NoParameters}}

LoadErrors == {"Cannot find package 'dji-thermal-sdk'", "libdirp.so: cannot open"}

NoRequest ==
  [file |-> FALSE, x |-> Undefined, y |-> Undefined, scale |-> Undefined,
   include_raw_data |-> Undefined, format |-> Undefined,
   emissivity |-> Undefined]
NoLocals == Locals(IntNull, IntNull, FALSE, JUndef)
NoDecode ==
  [k |-> "none", width |-> 0, height |-> 0, data |-> <<>>,
   parameters |-> NoParameters]
NoTrace == [loads |-> 0, decodes |-> 0, read |-> <<>>]

(***************************************************************************)
(* State.                                                                  *)
(*   rev        the revision of server.js that is deployed                 *)
(*   listening  the process is up and serving                              *)
(*   pc[s]      where handler s is: "idle", "import" (suspended at         *)
(*              await import("dji-thermal-sdk")), "done" (has answered)    *)
(*   req[s]     the request it was called with                             *)
(*   loc[s]     its locals across the await                                *)
(*   dec[s]     what the decoder returned to it                            *)
(*   res[s]     the response it sent                                       *)
(*   trace[s]   how often it loaded and called the decoder, and the data   *)
(*              indices it read in pixel mode                              *)
(***************************************************************************)
VARIABLES rev, listening, pc, req, loc, dec, res, trace

vars == <<rev, listening, pc, req, loc, dec, res, trace>>

Init ==
  /\ rev \in Revisions
  /\ listening = TRUE
  /\ pc = [s \in Slots |-> "idle"]
  /\ req = [s \in Slots |-> NoRequest]
  /\ loc = [s \in Slots |-> NoLocals]
  /\ dec = [s \in Slots |-> NoDecode]
  /\ res = [s \in Slots |-> NoResponse]
  /\ trace = [s \in Slots |-> NoTrace]

\* (locals kept in variables of the module: every handler in flight sees
\* those of the request that came last)
ReceivedShared(s, r, out) ==
  /\ req' = [req EXCEPT ![s] = r]
  /\ pc' = [pc EXCEPT ![s] = IF out.done THEN "done" ELSE "import"]
  /\ res' = [res EXCEPT ![s] = out.res]
  /\ loc' = IF out.done THEN loc ELSE [t \in Slots |-> out.loc]

\* handler s has run on r as far as out says
Received(s, r, out) ==
  /\ req' = [req EXCEPT ![s] = r]
  /\ pc' = [pc EXCEPT ![s] = IF out.done THEN "done" ELSE "import"]
  /\ res' = [res EXCEPT ![s] = out.res]
  /\ loc' = [loc EXCEPT ![s] = IF out.done THEN NoLocals ELSE out.loc]

\* a request arrives; the handler runs up to its first await, or to its answer
Receive(s, R) ==
  /\ listening /\ pc[s] = "idle"
  /\ \E r \in R : Received(s, r, Sync(rev, r))
  /\ UNCHANGED <<rev, listening, dec, trace>>

\* (an import outside the try: the rejection ends the process unanswered)
ImportFailsUncaught(s) ==
  /\ pc[s] = "import"
  /\ listening' = FALSE
  /\ trace' = [trace EXCEPT ![s].loads = @ + 1]
  /\ pc' = [pc EXCEPT ![s] = "done"]
  /\ UNCHANGED <<rev, req, loc, dec, res>>

\* (a catch of the import that answers 500 and does not return: the handler
\* goes on to the decoder)
ImportFailsNoReturn(s) ==
  /\ pc[s] = "import" /\ res[s] = NoResponse
  /\ \E msg \in LoadErrors :
       res' = [res EXCEPT ![s] =
                 Resp(500, "error",
                      [error |-> "Failed to load dji-thermal-sdk on the server.",
                       details |-> msg])]
  /\ UNCHANGED <<rev, listening, pc, req, loc, dec, trace>>

\* the import rejects: the inner catch answers 500
ImportFails(s) ==
  /\ pc[s] = "import"
  /\ \E msg \in LoadErrors :
       res' = [res EXCEPT ![s] =
                 Resp(500, "error", [error |-> "Failed to load dji-thermal-sdk on the server.", details |-> msg])]
  /\ trace' = [trace EXCEPT ![s].loads = @ + 1]
  /\ pc' = [pc EXCEPT ![s] = "done"]
  /\ UNCHANGED <<rev, listening, req, loc, dec>>

\* handler s has decoded d and gone on as far as out says
Continued(s, d, out) ==
  /\ dec' = [dec EXCEPT ![s] = d]
  /\ res' = [res EXCEPT ![s] = out.res]
  /\ trace' = [trace EXCEPT ![s] =
                 [loads |-> @.loads + 1, decodes |-> @.decodes + 1,
                  read |-> out.read]]

\* the import resolves: decode and answer
ImportResolves(s, D) ==
  /\ pc[s] = "import"
  /\ \E d \in D : Continued(s, d, After(rev, loc[s], d))
  /\ pc' = [pc EXCEPT ![s] = "done"]
  /\ UNCHANGED <<rev, listening, req, loc>>

\* the response is out; the handler's frame is gone
Finish(s) ==
  /\ pc[s] = "done"
  /\ pc' = [pc EXCEPT ![s] = "idle"]
  /\ req' = [req EXCEPT ![s] = NoRequest]
  /\ loc' = [loc EXCEPT ![s] = NoLocals]
  /\ dec' = [dec EXCEPT ![s] = NoDecode]
  /\ res' = [res EXCEPT ![s] = NoResponse]
  /\ trace' = [trace EXCEPT ![s] = NoTrace]
  /\ UNCHANGED <<rev, listening>>

\* one request at a time
Next ==
  \/ Receive(1, Requests(rev))
  \/ ImportFails(1)
  \/ ImportResolves(1, DecodeOutcomes)
  \/ Finish(1)

Spec == Init /\ [][Next]_vars

\* one request at a time, with the optional fields
NextOptions ==
  \/ Receive(1, OptionRequests(rev))
  \/ ImportFails(1)
  \/ ImportResolves(1, OptionOutcomes)
  \/ Finish(1)

SpecOptions == Init /\ [][NextOptions]_vars

\* requests in flight together: every handler in Slots takes its steps in
\* any order with the others', each suspended at its await for as long as
\* the import takes (a few requests and matrices, to keep the pairs few)
NextConcurrent ==
  \E s \in Slots :
    \/ Receive(s, {r \in Requests(rev) :
                     /\ r.file /\ r.x = r.y
                     /\ r.x \in {Undefined, Str(<<"0">>)}
                     /\ r.scale \in {Undefined, Str(<<"0", ".", "5">>)}})
    \/ ImportFails(s)
    \/ ImportResolves(s, {d \in DecodeOutcomes :
                            \/ d.k = "throw"
                            \/ /\ d.k = "data" /\ d.width = 1 /\ d.height = 1
                               /\ d.data \in {<<0>>, <<1>>, <<1000, 1>>}})
    \/ Finish(s)

SpecConcurrent == Init /\ [][NextConcurrent]_vars

(***************************************************************************)
(* Properties. A handler that has answered (pc = "done") still holds its   *)
(* request, its locals, the decoder's result and its response.             *)
(***************************************************************************)
\* handler s has answered in single-pixel mode on a decoded, non-empty matrix
PixelAnswered(s) ==
  /\ pc[s] = "done" /\ dec[s].k = "data" /\ Len(dec[s].data) > 0
  /\ loc[s].hasCoords

\* 0 <= x < width and 0 <= y < height
InBounds(s) ==
  /\ 0 <= loc[s].x.n /\ loc[s].x.n < dec[s].width
  /\ 0 <= loc[s].y.n /\ loc[s].y.n < dec[s].height

\* position of samples[y*width + x] in the sequence data (from 1)
SamplePos(s) == loc[s].y.n * dec[s].width + loc[s].x.n + 1
HasSample(s) == SamplePos(s) <= Len(dec[s].data)
SampleAt(s) == dec[s].data[SamplePos(s)]

ScaledRevisions == {"part_003", "part_000"}

\* the double nearest to 1/10, and the double products r * scale of the
\* samples and scales of the model
OneTenth == FDivInt(FromInt(1), 10)
Products ==
  [r \in SampleVals, sc \in ValidScales |-> FMul(FromInt(r), sc)] @@ <<>>

\* C1: in the revisions with a scale, a pixel request for an in-bounds
\* (x, y) whose sample r is neither 0 nor 65535 is answered 200 with
\* temperature = r * scale (the double product) and raw = r.
C1_PixelValue ==
  \A s \in Slots :
    (/\ rev \in ScaledRevisions /\ PixelAnswered(s) /\ InBounds(s)
     /\ HasSample(s) /\ SampleAt(s) \notin {0, 65535})
    => /\ res[s].status = 200 /\ res[s].kind = "pixel"
       /\ res[s].body.temperature = Products[SampleAt(s), loc[s].scale]
       /\ res[s].body.raw = IntVal(SampleAt(s))

\* a pixel request with scale 0.5 at a sample of 2000 was answered 1000
C1_Witness ==
  \E s \in Slots :
    /\ rev = "part_000" /\ PixelAnswered(s) /\ InBounds(s) /\ HasSample(s)
    /\ SampleAt(s) = 2000 /\ req[s].scale = Str(<<"0", ".", "5">>)
    /\ loc[s].x.n = 0 /\ loc[s].y.n = 1
    /\ res[s].kind = "pixel" /\ res[s].body.temperature = FromInt(1000)

\* C2: in the revisions with a scale, a pixel request for an in-bounds
\* (x, y) whose sample is 0 or 65535 is answered with temperature null and
\* reason "no-data-or-saturated", never with a number.
C2_PixelSentinel ==
  \A s \in Slots :
    (/\ rev \in ScaledRevisions /\ PixelAnswered(s) /\ InBounds(s)
     /\ HasSample(s) /\ SampleAt(s) \in {0, 65535})
    => /\ res[s].status = 200 /\ res[s].kind = "pixel"
       /\ res[s].body.temperature = JNull
       /\ res[s].body.reason = "no-data-or-saturated"

\* a pixel request at a saturated sample was answered with null
C2_Witness ==
  \E s \in Slots :
    /\ rev = "part_003" /\ PixelAnswered(s) /\ InBounds(s) /\ HasSample(s)
    /\ SampleAt(s) = 65535 /\ loc[s].x.n = 1 /\ loc[s].y.n = 0
    /\ res[s].kind = "pixel" /\ res[s].body.temperature = JNull

\* C3: in part_003, a pixel request whose integer (x, y) lies outside the
\* decoded matrix is answered 400 with the matrix's width and height; no
\* sample was read and the answer has no temperature.
C3_PixelBounds ==
  \A s \in Slots :
    (rev = "part_003" /\ PixelAnswered(s) /\ ~InBounds(s))
    => /\ res[s].status = 400 /\ res[s].kind = "error"
       /\ "width" \in DOMAIN res[s].body /\ "height" \in DOMAIN res[s].body
       /\ res[s].body.width = dec[s].width
       /\ res[s].body.height = dec[s].height
       /\ "temperature" \notin DOMAIN res[s].body
       /\ trace[s].read = <<>>

\* a pixel request with x = -1, and one with y = height, were refused
C3_Witness ==
  \E s \in Slots :
    /\ rev = "part_003" /\ PixelAnswered(s) /\ res[s].status = 400
    /\ \/ loc[s].x.n = -1
       \/ loc[s].y.n = dec[s].height /\ loc[s].x.n = 0

\* a <= b for two JSON numbers (false when either is null)
NumLeq(a, b) == a.k = "num" /\ b.k = "num" /\ ~NumLess(b, a)

\* handler s has answered with statistics
StatsAnswered(s) == pc[s] = "done" /\ res[s].kind = "stats"

\* C4: a stats response of part_003 or of the percentile revision of
\* server.js has minC <= avgC <= maxC.
C4_StatsOrdering ==
  \A s \in Slots :
    (/\ rev \in {"part_003", "percentile"} /\ StatsAnswered(s)
     /\ res[s].body.stats.samples > 0)
    => /\ NumLeq(res[s].body.stats.minC, res[s].body.stats.avgC)
       /\ NumLeq(res[s].body.stats.avgC, res[s].body.stats.maxC)

\* the positions of data holding neither 0 nor 65535
ValidPositions(data) == {i \in 1..Len(data) : data[i] \notin {0, 65535}}
\* those whose tenth lies in [-50, 150]
RangePositions(data) ==
  {i \in ValidPositions(data) : -500 <= data[i] /\ data[i] <= 1500}

MinAt(data, P) == CHOOSE m \in {data[i] : i \in P} : \A i \in P : m <= data[i]
MaxAt(data, P) == CHOOSE m \in {data[i] : i \in P} : \A i \in P : m >= data[i]

RECURSIVE SumAt(_, _)
SumAt(data, P) ==
  IF P = {} THEN 0
  ELSE data[CHOOSE i \in P : TRUE]
         + SumAt(data, P \ {CHOOSE i \in P : TRUE})

\* the tenths of the samples at P among the first n, added up in order
RECURSIVE SumTenthsAt(_, _, _)
SumTenthsAt(data, P, n) ==
  IF n = 0 THEN FZero
  ELSE IF n \in P THEN FAdd(SumTenthsAt(data, P, n - 1), FDivInt(FromInt(data[n]), 10))
  ELSE SumTenthsAt(data, P, n - 1)

\* minimum, maximum and mean of the samples at P, times scale
TimesScaleStats(data, P, scale) ==
  IF P = {} THEN [samples |-> 0]
  ELSE [minC |-> FMul(FromInt(MinAt(data, P)), scale),
        maxC |-> FMul(FromInt(MaxAt(data, P)), scale),
        avgC |-> FMul(FDivInt(FromInt(SumAt(data, P)), Cardinality(P)), scale),
        samples |-> Cardinality(P)]

\* minimum, maximum and mean of the tenths of the samples at P
TenthStats(data, P) ==
  IF P = {} THEN [samples |-> 0]
  ELSE [minC |-> FDivInt(FromInt(MinAt(data, P)), 10),
        maxC |-> FDivInt(FromInt(MaxAt(data, P)), 10),
        avgC |-> FDivInt(SumTenthsAt(data, P, Len(data)), Cardinality(P)),
        samples |-> Cardinality(P)]

\* the two, for every matrix and scale of the model
NonSentinelStats ==
  [data \in DataSeqs, sc \in ValidScales |->
     TimesScaleStats(data, ValidPositions(data), sc)] @@ <<>>
RangeStats ==
  [data \in DataSeqs |-> TenthStats(data, RangePositions(data))] @@ <<>>

\* the scale of a stats request: the request's, 0.1 where there is none
StatsScale(s) == IF rev = "part_003" THEN loc[s].scale ELSE DEFAULT_SCALE

\* Scenario A on a statistics pass: [100, 0, 200, 65535] gives samples = 2,
\* minC = 10, maxC = 20, avgC = 15
IsScenarioA(c) ==
  /\ c.count = 2 /\ c.minC = FromInt(10) /\ c.maxC = FromInt(20)
  /\ c.avgC = FromInt(15)

ScenarioA003 == IsScenarioA(Compute003(<<100, 0, 200, 65535>>, DEFAULT_SCALE))
ScenarioARange == IsScenarioA(ComputeRange(<<100, 0, 200, 65535>>))

BadScales ==
  {Str(<<"0">>), Str(<<"-", "1">>), Str(<<"a", "b", "c">>),
   Str(<<"I", "n", "f", "i", "n", "i", "t", "y">>)}

\* an absent and an empty scale field
NoScales == {Undefined, Str(<<>>)}

\* C6: in the revisions with a scale, a request (with its file) whose scale
\* is zero, negative, non-numeric or non-finite is answered 400 without the
\* decoder having been loaded or called, whatever x and y are; with an
\* absent or empty scale the handler goes on with scale 0.1 and never
\* answers "Invalid 'scale'".
C6_ScaleBeforeDecoder ==
  \A s \in Slots :
    (rev \in ScaledRevisions /\ pc[s] # "idle" /\ req[s].file)
    => /\ req[s].scale \in BadScales
          => /\ pc[s] = "done" /\ res[s].status = 400
             /\ res[s].body.error = "Invalid 'scale'. Must be a positive number (e.g. 0.1)."
             /\ dec[s] = NoDecode
             /\ trace[s].loads = 0 /\ trace[s].decodes = 0
       /\ req[s].scale \in NoScales
          => /\ loc[s].scale = OneTenth
             /\ ~(res[s].kind = "error" /\ res[s].body.error = "Invalid 'scale'. Must be a positive number (e.g. 0.1).")

\* a request with scale -1 and both coordinates was refused
C6_Witness ==
  \E s \in Slots :
    /\ rev = "part_003" /\ req[s].file /\ pc[s] = "done"
    /\ req[s].scale = Str(<<"-", "1">>)
    /\ req[s].x = Str(<<"0">>) /\ req[s].y = Str(<<"0">>)
    /\ res[s].status = 400 /\ trace[s].loads = 0

\* coordinate fields that parse to an integer
IntegerFields == {Str(<<"0">>), Str(<<"1">>), Str(<<"2">>), Str(<<"-", "1">>)}
BothParse(r) == r.x \in IntegerFields /\ r.y \in IntegerFields
\* both fields supplied and not empty
BothSupplied(r) ==
  /\ r.x.defined /\ r.x.chars # <<>> /\ r.y.defined /\ r.y.chars # <<>>

\* the answer is one of single-pixel mode, of statistics mode
PixelMode(s) ==
  \/ res[s].kind = "pixel"
  \/ res[s].kind = "error" /\ res[s].body.error = "Coordinates out of bounds."
StatsMode(s) ==
  \/ res[s].kind = "stats"
  \/ res[s].kind = "error" /\ res[s].body.error = "No valid thermal samples for statistics."

\* handler s has answered after the decoder gave it a non-empty matrix
DecodedAnswered(s) ==
  pc[s] = "done" /\ dec[s].k = "data" /\ Len(dec[s].data) > 0

\* the answer was given before the import, or after a decoding that gave
\* a non-empty matrix: no failure of the decoder stands in for it
Undisturbed(s) == pc[s] = "done" /\ (trace[s].loads = 0 \/ DecodedAnswered(s))

\* the answer is the refusal of the coordinates
CoordinatesRefused(s) ==
  /\ res[s].status = 400 /\ res[s].kind = "error"
  /\ res[s].body.error = "Invalid coordinates; x and y must be integers."

\* C7: in part_003 and in the range-filter revision of server.js, a
\* request is answered in single-pixel mode if and only if x and y are both
\* supplied and both parse to integers; any other request with its file is
\* not refused for its coordinates and is answered in statistics mode.
C7_ModeSelection ==
  \A s \in Slots :
    (rev \in {"part_003", "range"} /\ Undisturbed(s) /\ req[s].file)
    => /\ PixelMode(s) => BothParse(req[s])
       /\ (BothParse(req[s]) /\ DecodedAnswered(s)) => PixelMode(s)
       /\ ~BothParse(req[s])
          => /\ ~CoordinatesRefused(s)
             /\ DecodedAnswered(s) => StatsMode(s)

\* C8: in part_003 and in the range-filter revision of server.js, a
\* request (with its file and a valid scale) whose x and y are both supplied
\* and not empty, one of them not parsing to an integer, is answered 400
\* "Invalid coordinates", and neither in pixel nor in statistics mode.
C8_InvalidCoordinates ==
  \A s \in Slots :
    (/\ rev \in {"part_003", "range"} /\ Undisturbed(s) /\ req[s].file
     /\ req[s].scale \notin BadScales
     /\ BothSupplied(req[s]) /\ ~BothParse(req[s]))
    => /\ CoordinatesRefused(s)
       /\ ~PixelMode(s) /\ ~StatsMode(s)

\* C9: in part_003, a statistics request on a non-empty matrix whose
\* samples are all 0 or 65535 is answered 500 "No valid thermal samples",
\* without a stats object.
C9_NoValidSamples ==
  \A s \in Slots :
    (/\ rev = "part_003" /\ DecodedAnswered(s) /\ ~BothParse(req[s])
     /\ ValidPositions(dec[s].data) = {})
    => /\ res[s].status = 500 /\ res[s].kind = "error"
       /\ res[s].body.error = "No valid thermal samples for statistics."
       /\ "stats" \notin DOMAIN res[s].body

\* statistics were asked for the matrix [0, 65535]
C9_Witness ==
  \E s \in Slots :
    /\ rev = "part_003" /\ DecodedAnswered(s) /\ ~BothParse(req[s])
    /\ dec[s].data = <<0, 65535>> /\ res[s].status = 500

\* handler s has answered after its import of the decoder failed
LoadFailedFor(s) ==
  pc[s] = "done" /\ trace[s].loads > 0 /\ trace[s].decodes = 0

\* C10: in part_003, a request whose import of the decoder failed is
\* answered 500 "Failed to load dji-thermal-sdk" with the failure's message;
\* the decoder was not called, the import was made once, and the server is
\* still up, the handler free to finish and take the next request.
C10_DecoderIsolation ==
  \A s \in Slots :
    (rev = "part_003" /\ LoadFailedFor(s))
    => /\ res[s].status = 500 /\ res[s].kind = "error"
       /\ res[s].body.error = "Failed to load dji-thermal-sdk on the server."
       /\ res[s].body.details \in LoadErrors
       /\ dec[s] = NoDecode
       /\ trace[s].loads = 1
       /\ listening
       /\ ENABLED Finish(s)

\* an import failed
C10_Witness ==
  \E s \in Slots :
    /\ rev = "part_003" /\ LoadFailedFor(s) /\ res[s].status = 500
    /\ res[s].body.details = "libdirp.so: cannot open"

(***************************************************************************)
(* The full-matrix dump, read back as a client reads it.                   *)
(***************************************************************************)
\* the bytes a base64 text stands for
RECURSIVE Base64Decode(_)
Base64Decode(cs) ==
  IF cs = <<>> THEN <<>>
  ELSE LET v(i) == CHOOSE n \in 0..63 : Sextet(n) = cs[i]
       IN  IF cs[3] = "=" THEN <<v(1) * 4 + v(2) \div 16>>
           ELSE IF cs[4] = "="
             THEN <<v(1) * 4 + v(2) \div 16, (v(2) % 16) * 16 + v(3) \div 4>>
           ELSE <<v(1) * 4 + v(2) \div 16, (v(2) % 16) * 16 + v(3) \div 4,
                  (v(3) % 4) * 64 + v(4)>>
                  \o Base64Decode(SubSeq(cs, 5, Len(cs)))

\* entry i (from 1) of a Uint16Array and of a Float32Array over bytes b
Uint16At(b, i) == b[2 * i - 1] + 256 * b[2 * i]
Float32At(b, i) ==
  LET mant == b[4*i - 3] + 256 * b[4*i - 2] + 65536 * (b[4*i - 1] % 128)
      ex == (b[4*i] % 128) * 2 + b[4*i - 1] \div 128
  IN  IF ex = 0 /\ mant = 0 THEN FZero
      ELSE Round(BigFromNat(2^23 + mant), ex - 150, FALSE, DoublePrec)

\* the single nearest to a double, as a double
Single(v) ==
  IF v.m = <<>> THEN v
  ELSE LET f == Round(v.m, v.e, FALSE, 24)
       IN  Round(f.m, f.e, FALSE, DoublePrec)

\* handler s answered a statistics request that asked for the matrix
DumpAsked(s) ==
  /\ StatsAnswered(s) /\ rev \in {"part_003", "percentile"}
  /\ req[s].include_raw_data = Str(<<"t", "r", "u", "e">>)

\* format=float32, in either spelling the model sends
Float32Asked(s) ==
  req[s].format \in {Str(<<"f", "l", "o", "a", "t", "3", "2">>),
                     Str(<<"F", "l", "o", "a", "t", "3", "2">>)}

\* C11: a statistics response to include_raw_data=true carries the whole
\* matrix: one entry per decoded sample, entry i made from samples[i]
\* (the single nearest to samples[i] * scale for float32, samples[i] itself
\* for uint16, samples[i] / 10 in server.js), the sentinels 0 and 65535
\* among them.
C11_FullMatrix ==
  \A s \in Slots :
    DumpAsked(s)
    => IF rev = "percentile"
         THEN /\ "temperaturesC" \in DOMAIN res[s].body
              /\ Len(res[s].body.temperaturesC) = Len(dec[s].data)
              /\ \A i \in 1..Len(dec[s].data) :
                   res[s].body.temperaturesC[i]
                     = FDivInt(FromInt(dec[s].data[i]), 10)
         ELSE /\ "temperatures_base64" \in DOMAIN res[s].body
              /\ LET b == Base64Decode(res[s].body.temperatures_base64)
                 IN  IF Float32Asked(s)
                       THEN /\ res[s].body.temperatures_format = "float32"
                            /\ Len(b) = 4 * Len(dec[s].data)
                            /\ \A i \in 1..Len(dec[s].data) :
                                 Float32At(b, i)
                                   = Single(Products[dec[s].data[i],
                                                     loc[s].scale])
                       ELSE /\ res[s].body.temperatures_format = "uint16"
                            /\ Len(b) = 2 * Len(dec[s].data)
                            /\ \A i \in 1..Len(dec[s].data) :
                                 Uint16At(b, i) = dec[s].data[i]

\* a float32 dump of [1000, 65535] at the default scale read back as
\* [100, 6553.5]
C11_Witness ==
  \E s \in Slots :
    /\ DumpAsked(s) /\ rev = "part_003" /\ Float32Asked(s)
    /\ req[s].scale = Undefined /\ dec[s].data = <<1000, 65535>>
    /\ LET b == Base64Decode(res[s].body.temperatures_base64)
       IN  /\ Float32At(b, 1) = FromInt(100)
           /\ Float32At(b, 2) = FDivInt(FromInt(65535), 10)

\* handler s of part_003 answered with the uint16 dump
Uint16Dumped(s) ==
  /\ rev = "part_003" /\ StatsAnswered(s)
  /\ "temperatures_scale" \in DOMAIN res[s].body

\* the bytes of the uint16 dump s sent, and of the float32 dump the same
\* request and matrix give when format=float32 is asked instead
Uint16Sent(s) == Base64Decode(res[s].body.temperatures_base64)
Float32For(s) ==
  Base64Decode(
    Raw003([loc[s] EXCEPT !.format = <<"f", "l", "o", "a", "t", "3", "2">>],
           dec[s]).temperatures_base64)

\* entry i of the uint16 dump times the scale sent with it, as the client
\* computes it in doubles
ClientCelsius(s, i) ==
  FMul(FromInt(Uint16At(Uint16Sent(s), i)), res[s].body.temperatures_scale)

\* C12 as stated: entry i of the uint16 payload times the communicated
\* scale equals entry i of the float32 payload, and the uint16 payload
\* holds every sample unchanged.
C12_RoundTripExact ==
  \A s \in Slots :
    Uint16Dumped(s)
    => \A i \in 1..Len(dec[s].data) :
         /\ Uint16At(Uint16Sent(s), i) = dec[s].data[i]
         /\ ClientCelsius(s, i) = Float32At(Float32For(s), i)

\* C12 amended: entry i of the uint16 payload times the communicated scale
\* is, once rounded to single precision, entry i of the float32 payload;
\* the uint16 payloads of part_003 and part_000 hold every sample unchanged
\* and the scale sent is the scale of the request.
C12_RoundTripSingle ==
  \A s \in Slots :
    /\ Uint16Dumped(s)
       => /\ res[s].body.temperatures_scale = loc[s].scale
          /\ Len(Uint16Sent(s)) = 2 * Len(dec[s].data)
          /\ Len(Float32For(s)) = 4 * Len(dec[s].data)
          /\ \A i \in 1..Len(dec[s].data) :
               /\ Uint16At(Uint16Sent(s), i) = dec[s].data[i]
               /\ Single(ClientCelsius(s, i)) = Float32At(Float32For(s), i)
    /\ (rev = "part_000" /\ pc[s] = "done" /\ res[s].kind = "binary")
       => /\ res[s].body.u16 = dec[s].data
          /\ res[s].body.scale = loc[s].scale

\* a uint16 dump whose first entry times the scale, 1 * 0.1, is not the
\* single the float32 dump holds, and rounds to it
C12_Witness ==
  \E s \in Slots :
    /\ Uint16Dumped(s) /\ dec[s].data = <<1, 65535>>
    /\ req[s].scale = Undefined
    /\ ClientCelsius(s, 1) # Float32At(Float32For(s), 1)
    /\ Single(ClientCelsius(s, 1)) = Float32At(Float32For(s), 1)
    /\ ClientCelsius(s, 2) = Float32At(Float32For(s), 2)

\* the decoder has been loaded and called for handler s, which has answered
Decoded(s) == pc[s] = "done" /\ trace[s].decodes = 1

\* C13: with requests in flight together in any interleaving, a handler
\* suspended at the import still holds the locals of its own request, a
\* handler that answered without the decoder gave the answer of its own
\* request, one that answered after decoding gave the answer of its own
\* request and its own file's matrix, and two handlers with identical
\* requests and identical matrices gave identical responses.
C13_Independence ==
  \A s \in Slots :
    /\ pc[s] = "import" => loc[s] = Sync(rev, req[s]).loc
    /\ (pc[s] = "done" /\ trace[s].loads = 0)
       => res[s] = Sync(rev, req[s]).res
    /\ Decoded(s)
       => res[s] = After(rev, Sync(rev, req[s]).loc, dec[s]).res
    /\ \A t \in Slots :
         (Decoded(s) /\ Decoded(t) /\ req[s] = req[t] /\ dec[s] = dec[t])
         => res[s] = res[t]

\* one handler has answered a pixel request while another, with another
\* request, is still suspended at its import
C13_Witness ==
  \E s, t \in Slots :
    /\ rev = "part_003" /\ Decoded(s) /\ res[s].kind = "pixel"
    /\ pc[t] = "import" /\ ~loc[t].hasCoords /\ req[t] # req[s]

\* what an error response may hold, and the error paths of the handler
ErrorFields == {"error", "details", "width", "height"}
ErrorMessages ==
  {"Missing file 'image'.",
   "Invalid 'scale'. Must be a positive number (e.g. 0.1).",
   "Failed to load dji-thermal-sdk on the server.",
   "No thermal data returned", "Coordinates out of bounds.",
   "No valid thermal samples for statistics.", "Processing failed"}

\* C14: in part_003 and part_000 a handler that has run to its end has sent
\* a response; a response once sent is not followed by another for the same
\* request; an error response (status 400 or 500, one of the error paths)
\* holds nothing of a success response, and a success response (status
\* 200) holds no error.
C14_OneResponse ==
  /\ [](\A s \in Slots :
          (rev \in {"part_003", "part_000"} /\ pc[s] = "done")
          => /\ res[s].kind # "none"
             /\ IF res[s].kind = "error"
                  THEN /\ res[s].status \in {400, 500}
                       /\ res[s].body.error \in ErrorMessages
                       /\ DOMAIN res[s].body \subseteq ErrorFields
                  ELSE /\ res[s].status = 200
                       /\ "error" \notin DOMAIN res[s].body)
  /\ [][\A s \in Slots :
          res[s] # NoResponse => (res'[s] = res[s] \/ pc'[s] = "idle")]_vars

\* the decoder threw in part_000, whose success path sets headers before
\* it sends: the answer is the 500 of the catch
C14_Witness ==
  \E s \in Slots :
    /\ rev = "part_000" /\ pc[s] = "done" /\ dec[s].k = "throw"
    /\ res[s].status = 500 /\ res[s].body.error = "Processing failed"

\* the samples of data that are neither 0 nor 65535, in the order of data
ValidInOrder(data) == SelectSeq(data, LAMBDA v : v \notin {0, 65535})

\* the first 50 of them at most, each converted as the revision converts a
\* sample: times scale in part_003, over 10 in server.js
PreviewOf(data, scale) ==
  [i \in 1..(IF Len(ValidInOrder(data)) < 50
               THEN Len(ValidInOrder(data)) ELSE 50) |->
     IF rev = "part_003" THEN Products[ValidInOrder(data)[i], scale]
     ELSE FDivInt(FromInt(ValidInOrder(data)[i]), 10)]

\* C15: in part_003 and in the percentile revision of server.js,
\* sampleTempsC of a stats response is the first min(50, number of valid
\* samples) non-sentinel samples in input order, each converted to degrees.
C15_Preview ==
  \A s \in Slots :
    (StatsAnswered(s) /\ rev \in {"part_003", "percentile"})
    => res[s].body.sampleTempsC = PreviewOf(dec[s].data, loc[s].scale)

\* the emissivity the request of s resolves to: its override when it has
\* one (0.95 is the only one the model sends), else the decoder's
ResolvedEmissivity(s) ==
  IF req[s].emissivity = Str(<<"0", ".", "9", "5">>)
    THEN FDivInt(FromInt(95), 100)
    ELSE dec[s].parameters.emissivity

\* C16: the answer to a pixel request at an in-bounds sample that is
\* neither 0 nor 65535 (part_003, and the two revisions of server.js that
\* read an emissivity field) carries the resolved emissivity and the
\* decoder's parameters.
C16_Emissivity ==
  \A s \in Slots :
    (/\ rev \in {"part_003", "range", "percentile"}
     /\ PixelAnswered(s) /\ InBounds(s) /\ HasSample(s)
     /\ SampleAt(s) \notin {0, 65535})
    => /\ "emissivity" \in DOMAIN res[s].body
       /\ res[s].body.emissivity = ResolvedEmissivity(s)
       /\ "parameters" \in DOMAIN res[s].body
       /\ res[s].body.parameters = dec[s].parameters

\* positions of the samples that are neither 0 nor 65535 and whose tenth
\* lies in [-40, 150]
PercentilePositions(data) ==
  {i \in ValidPositions(data) : -400 <= data[i] /\ data[i] <= 1500}

\* the samples at P in ascending order: the non-decreasing sequence that
\* holds each value as often as P does
SortedAt(data, P) ==
  CHOOSE sq \in [1..Cardinality(P) -> {data[i] : i \in P}] :
    /\ \A i \in 1..(Cardinality(P) - 1) : sq[i] <= sq[i + 1]
    /\ \A v \in {data[i] : i \in P} :
         Cardinality({i \in 1..Cardinality(P) : sq[i] = v})
           = Cardinality({i \in P : data[i] = v})

\* the tenths of the first n values of sq that lie in [lo, hi], added up
\* in order
RECURSIVE SumTenthsWithin(_, _, _, _)
SumTenthsWithin(sq, lo, hi, n) ==
  IF n = 0 THEN FZero
  ELSE IF lo <= sq[n] /\ sq[n] <= hi
    THEN FAdd(SumTenthsWithin(sq, lo, hi, n - 1), FDivInt(FromInt(sq[n]), 10))
  ELSE SumTenthsWithin(sq, lo, hi, n - 1)

\* what the claim expects of the n >= 1 values sq sorted ascending
TrimmedExpectation(sq, n, lo, hi) ==
  [minC |-> FDivInt(FromInt(lo), 10),
   maxC |-> FDivInt(FromInt(hi), 10),
   avgC |-> FDivInt(SumTenthsWithin(sq, lo, hi, n),
                    Cardinality({i \in 1..n : lo <= sq[i] /\ sq[i] <= hi})),
   samples |-> n,
   usedForAvg |-> Cardinality({i \in 1..n : lo <= sq[i] /\ sq[i] <= hi})]

TrimmedOf(sq, n) ==
  TrimmedExpectation(sq, n, sq[(5 * (n - 1)) \div 100 + 1],
                     sq[(99 * (n - 1)) \div 100 + 1])

FirstAt(data, v) ==
  CHOOSE i \in 1..Len(data) : data[i] = v /\ \A j \in 1..(i - 1) : data[j] # v

\* the pixel of the sample at position pos (from 1) of a matrix read row
\* by row: (i mod width, floor(i / width)) for i = pos - 1
PixelAtPos(pos, width) ==
  [k |-> "pixel", x |-> (pos - 1) % width, y |-> (pos - 1) \div width]

\* the sample at y*width + x of a reported pixel
SampleOfPixel(data, width, px) == data[px.y * width + px.x + 1]

\* C18: in a stats response of part_003, minPixel (maxPixel) is the pixel
\* of the smallest index whose sample is non-sentinel and equals the
\* minimum (maximum) non-sentinel sample; neither is null; and when
\* samples.length = width*height the sample at y*width + x of the
\* reported pixel is that extremum.
C18_ExtremumLocation ==
  \A s \in Slots :
    (rev = "part_003" /\ StatsAnswered(s))
    => /\ ValidPositions(dec[s].data) # {}
       /\ res[s].body.minPixel
            = PixelAtPos(FirstAt(dec[s].data,
                                 MinAt(dec[s].data, ValidPositions(dec[s].data))),
                         dec[s].width)
       /\ res[s].body.maxPixel
            = PixelAtPos(FirstAt(dec[s].data,
                                 MaxAt(dec[s].data, ValidPositions(dec[s].data))),
                         dec[s].width)
       /\ Len(dec[s].data) = dec[s].width * dec[s].height
          => /\ SampleOfPixel(dec[s].data, dec[s].width, res[s].body.minPixel)
                  = MinAt(dec[s].data, ValidPositions(dec[s].data))
             /\ SampleOfPixel(dec[s].data, dec[s].width, res[s].body.maxPixel)
                  = MaxAt(dec[s].data, ValidPositions(dec[s].data))

\* a full 3 x 1 matrix that starts with a sentinel and holds its minimum
\* twice: the minimum is reported at the first of the two, the maximum
\* after it
C18_Witness ==
  \E s \in Slots :
    /\ rev = "part_003" /\ StatsAnswered(s)
    /\ dec[s].width = 3 /\ dec[s].height = 1
    /\ dec[s].data = <<0, 1, 1>>
    /\ res[s].body.minPixel = [k |-> "pixel", x |-> 1, y |-> 0]
    /\ res[s].body.maxPixel = [k |-> "pixel", x |-> 1, y |-> 0]

\* C19: in part_003, whenever pixel mode passes the bounds check
\* 0 <= x < width and 0 <= y < height, the index y*width + x it reads at
\* is in [0, samples.length), also for a decoder result whose
\* samples.length differs from width*height.
C19_IndexInside ==
  \A s \in Slots :
    (rev = "part_003" /\ PixelAnswered(s) /\ InBounds(s))
    => /\ trace[s].read = <<SamplePos(s) - 1>>
       /\ \A k \in 1..Len(trace[s].read) :
            0 <= trace[s].read[k] /\ trace[s].read[k] < Len(dec[s].data)
====
